---- MODULE Spec2Model ----
(***************************************************************************)
(* The asynchronous web server of "tema 5" (aws.c): one epoll loop, one    *)
(* struct connection per accepted socket, a state-tagged switch in         *)
(* handle_input / handle_output, sendfile(2) for static files and a        *)
(* read+write pair on one shared libaio context for dynamic files.         *)
(*                                                                         *)
(* Byte counts are scaled: one "unit" of a request, of a header, of a file *)
(* stands for a run of bytes.  Unit 1 of a request carries the request     *)
(* line through the path token; the last unit carries the end of the       *)
(* "\r\n\r\n" terminator.                                                  *)
(***************************************************************************)
EXTENDS Integers, Sequences, FiniteSets, TLC

\* ------------------------------------------------------------------ sizes
\* BUFSIZ of <stdio.h>, scaled: capacity of recv_buffer and the size of one
\* asynchronous chunk (aws.c:109, aws.c:118, aws.c:200, aws.c:257).
BUFSIZ == 2
\* Slots of the shared asynchronous-I/O context, io_setup(128, &ctx), scaled.
AioSlots == 4
\* Width of size_t (file_size, file_pos, recv_len, send_len), in bits.
SizeBits == 4
\* Units in a complete request, terminator included.
ReqLen == 2
\* Units in a response header (strlen of the sprintf'ed text).
HdrLen == 2
\* The document tree holds files of 0..MaxFileSize units.
MaxFileSize == 4
\* Dispatches of STATE_ASYNC_ONGOING followed per connection.
MaxChunks == 4
\* Irregular outcomes the environment produces per connection: a failed or
\* would-block send, sendfile, read or write, a short asynchronous write,
\* the asynchronous write running before the read it was submitted after.
MaxFaults == 1

SizeMod == 2 ^ SizeBits

Conns == {1, 2}

Min(a, b) == IF a < b THEN a ELSE b

\* ------------------------------------------------------- document tree
\* AWS_REL_STATIC_FOLDER / AWS_REL_DYNAMIC_FOLDER as used by the classifier.
AWS_REL_STATIC_FOLDER == "static/"
AWS_REL_DYNAMIC_FOLDER == "dynamic/"

\* A request path is its directory part, a sequence of tokens, and a file
\* name.  Under every directory the file named n (n <= MaxFileSize) exists
\* and holds n units; the file named MaxFileSize + 1 does not exist.
MissingFile == MaxFileSize + 1
Path(dirs, file) == [dirs |-> dirs, file |-> file]
NoPath == Path(<<>>, MissingFile)

StaticPaths == {Path(<<"/", AWS_REL_STATIC_FOLDER>>, n) : n \in 0..MissingFile}
DynamicPaths == {Path(<<"/", AWS_REL_DYNAMIC_FOLDER>>, n) : n \in 0..MissingFile}
OtherPaths ==
    {Path(<<"/", "other/">>, n) : n \in {BUFSIZ, MissingFile}}
        \cup {Path(<<"/", "other/", AWS_REL_STATIC_FOLDER>>, BUFSIZ)}
Paths == StaticPaths \cup DynamicPaths \cup OtherPaths

FileExists(path) == path.file <= MaxFileSize
FileSize(path) == path.file

\* What a peer may send: a well-formed request for a path, or a request
\* line the parser rejects.
Request(path, ok) == [path |-> path, ok |-> ok]
NoRequest == Request(NoPath, FALSE)
Requests == {Request(p, TRUE) : p \in Paths} \cup {NoRequest}
StaticRequests ==
    {Request(Path(<<"/", AWS_REL_STATIC_FOLDER>>, n), TRUE) : n \in {1, BUFSIZ + 1}}

\* Requests for an existing file under every directory of up to MaxDirs
\* components, each named after one of the two folders or after neither.
MaxDirs == 2
FolderNames == {AWS_REL_STATIC_FOLDER, AWS_REL_DYNAMIC_FOLDER, "other/"}
ClassifierPaths ==
    {Path(<<"/">> \o t, BUFSIZ) :
        t \in UNION {[1..n -> FolderNames] : n \in 0..MaxDirs}}
ClassifierRequests == {Request(p, TRUE) : p \in ClassifierPaths}

\* Every request some peer of some specification may send.
AllRequests == Requests \cup ClassifierRequests

\* ------------------------------------------------------------- the state
VARIABLES
    conn,       \* conn[c]: the struct connection of slot c
    sk,         \* sk[c]: the kernel's side of slot c: socket, peer, open file, wire
    ep,         \* ep[c]: the epoll interest of c's socket: "none", "in", "out"
    aioq,       \* completions of ctx not yet reaped, oldest first
    dead,       \* the process has exited (DIE or exit(EXIT_FAILURE))
    hist,       \* hist[c]: what has happened on slot c
    backlog,    \* connections not yet accepted, and what their peers may ask
    \* the parallel graph traversal (process_node and main)
    graph,      \* the os_graph_t: nodes[n].info, nodes[n].neighbours, visited[n]
    tp,         \* the task queue of the thread pool: node indexes, oldest first
    thread,     \* thread[t]: where main (t = 0) and each worker stand
    sum,        \* the atomic_int sum
    visits,     \* visits[n]: times n was enqueued, times its info was added
    \* the memory allocator (osmem.c, mem_list.c)
    heap,       \* the allocator's memory: block metadata, head, tail, break, mappings
    live,       \* live[p]: how many times the caller holds payload pointer p
    used,       \* what the allocator has done so far: split, coalesce, reuse, expand
    \* the shell's command interpreter (cmd.c)
    shell       \* the command being run, the calls made for it, its status

\* The web server's variables, the graph traversal's, the allocator's and
\* the shell's.
avars == <<conn, sk, ep, aioq, dead, hist, backlog>>
gvars == <<graph, tp, thread, sum, visits>>
mvars == <<heap, live, used>>
svars == <<shell>>
vars == <<conn, sk, ep, aioq, dead, hist, backlog, graph, tp, thread, sum, visits,
          heap, live, used, shell>>

RESOURCE_TYPE_NONE == "RESOURCE_TYPE_NONE"
RESOURCE_TYPE_STATIC == "RESOURCE_TYPE_STATIC"
RESOURCE_TYPE_DYNAMIC == "RESOURCE_TYPE_DYNAMIC"
ResourceTypes == {RESOURCE_TYPE_NONE, RESOURCE_TYPE_STATIC, RESOURCE_TYPE_DYNAMIC}

STATE_INITIAL == "STATE_INITIAL"
STATE_RECEIVING_DATA == "STATE_RECEIVING_DATA"
STATE_REQUEST_RECEIVED == "STATE_REQUEST_RECEIVED"
STATE_SENDING_DATA == "STATE_SENDING_DATA"
STATE_SENDING_HEADER == "STATE_SENDING_HEADER"
STATE_SENDING_404 == "STATE_SENDING_404"
STATE_ASYNC_ONGOING == "STATE_ASYNC_ONGOING"
STATE_DATA_SENT == "STATE_DATA_SENT"
STATE_HEADER_SENT == "STATE_HEADER_SENT"
STATE_404_SENT == "STATE_404_SENT"
STATE_CONNECTION_CLOSED == "STATE_CONNECTION_CLOSED"
\* No struct connection behind the slot yet.
STATE_NO_STATE == "STATE_NO_STATE"

\* calloc'ed struct connection, then sockfd, fd = -1 and state set.
\* live: the record is allocated (FALSE before accept and after free).
\* send_buffer / send_cl: the status of the header text in send_buffer and
\* the Content-Length printed in it.  recv_buffer: once chunks flow, the
\* buffer starts with n units of the file read at offset off.
connection_create ==
    [live |-> TRUE, state |-> STATE_INITIAL, fd |-> -1,
     recv_len |-> 0, request_path |-> NoPath, have_path |-> 0,
     res_type |-> RESOURCE_TYPE_NONE,
     file_size |-> 0, file_pos |-> 0,
     send_len |-> 0, send_buffer |-> "", send_cl |-> 0,
     recv_buffer |-> [off |-> 0, n |-> 0]]

NoConnection == [connection_create EXCEPT !.live = FALSE, !.state = STATE_NO_STATE]
\* The memory of a released record: nothing of it is the program's any more.
FreedConnection ==
    [connection_create EXCEPT !.live = FALSE, !.state = STATE_CONNECTION_CLOSED]

\* The kernel's side of one connection.
\*   open: the socket descriptor is open;  unread: units queued for recv;
\*   peerLeft: units of the request the peer has not sent yet;
\*   peerClosed: the peer has shut its side;  req: what the peer asks;
\*   file / fileOpen: the open file behind conn.fd;
\*   hdr200, hdr404: units of a 200 / of a 404 header on the wire;
\*   hdrCL: the Content-Length those units announce;
\*   body: body units on the wire;  bodyOK: those units are the file's
\*        first `body` units, in order.
NoSocket ==
    [open |-> FALSE, unread |-> 0, peerLeft |-> 0, peerClosed |-> FALSE,
     req |-> NoRequest, file |-> NoPath, fileOpen |-> FALSE,
     hdr200 |-> 0, hdr404 |-> 0, hdrCL |-> 0, body |-> 0, bodyOK |-> TRUE]

\* History of one slot.
\*   removes, sockCloses, fileCloses: calls of connection_remove, close(sockfd),
\*        close(fd);  badCloses: close(2) of a descriptor that is not open;
\*   freedUse: accesses to the record after free(conn);
\*   stored: units recv has put into recv_buffer;
\*   eofPartial: recv returned 0 with a partial request buffered;
\*   faults: irregular outcomes of system calls so far (see MaxFaults);
\*   reached: the values conn->state has taken;
\*   chunks: per dispatch of STATE_ASYNC_ONGOING, the offset of its read,
\*        the units read and the units written.
NoHistory ==
    [removes |-> 0, sockCloses |-> 0, fileCloses |-> 0, badCloses |-> 0,
     freedUse |-> 0, stored |-> 0, eofPartial |-> FALSE, faults |-> 0,
     reached |-> {}, chunks |-> <<>>]

\* ------------------------------------------- parallel graph: the values
\* NUM_THREADS workers of the thread pool (4 in the source), and main.
NUM_THREADS == 2
\* Nodes of the graphs traversed.
NumNodes == 3

Nodes == 0..(NumNodes - 1)
MainThread == 0
Workers == 1..NUM_THREADS
Threads == {MainThread} \cup Workers

NOT_VISITED == "NOT_VISITED"
PROCESSING == "PROCESSING"
DONE == "DONE"

RECURSIVE SetToSeq(_)
SetToSeq(S) ==
    IF S = {} THEN <<>>
    ELSE LET m == CHOOSE x \in S : \A y \in S : x <= y
         IN <<m>> \o SetToSeq(S \ {m})

\* create_graph_from_file: node n carries info n + 1 and the neighbours
\* adj[n], in ascending order; nothing is visited.
create_graph_from_file(adj) ==
    [nodes |-> [n \in Nodes |->
                    [info |-> n + 1,
                     num_neighbours |-> Cardinality(adj[n]),
                     neighbours |-> SetToSeq(adj[n])]],
     visited |-> [n \in Nodes |-> NOT_VISITED]]

\* The input files: every directed graph on Nodes without self-loops.
Adjacencies == {adj \in [Nodes -> SUBSET Nodes] : \A n \in Nodes : n \notin adj[n]}

\* A thread stands at pc in process_node(idx), at neighbour i of the loop;
\* a worker with no task is "idle".
ThreadAt(pc, idx, i) == [pc |-> pc, idx |-> idx, i |-> i]
IdleThread == ThreadAt("idle", 0, 0)
NoVisits == [n \in Nodes |-> [enqueued |-> 0, added |-> 0]]

\* No traversal runs beside the web server.
NoTraversal ==
    /\ graph = create_graph_from_file([n \in Nodes |-> {}])
    /\ tp = <<>>
    /\ thread = [t \in Threads |-> IdleThread]
    /\ sum = 0
    /\ visits = NoVisits

\* ------------------------------------------------ the allocator's values

\* block_meta.h, in bytes, scaled: an alignment unit of two bytes, a struct
\* block_meta of one unit, a threshold of five units and a page of three.
ALIGNMENT == 2
ALIGN(size) == ((size + (ALIGNMENT - 1)) \div ALIGNMENT) * ALIGNMENT
SizeofBlockMeta == 2
ALIGNED_METADATA_SIZE == ALIGN(SizeofBlockMeta)
MMAP_THRESHOLD == 10
PageSize == 6
STATUS_FREE == 0
STATUS_ALLOC == 1
STATUS_MAPPED == 2
NULL == 0

\* What a caller may ask for, and how far the break may move before sbrk
\* fails.
MaxSize == 8
HeapRoom == 16

\* The address space: the heap starts at the initial break, and the kernel
\* places a mapping in any free slot above the heap's limit; it grants two
\* mappings at a time before mmap fails.
HeapStart == ALIGNMENT
HeapLimit == HeapStart + HeapRoom
MapSlots == {1, 2}
MapSpan == ALIGNED_METADATA_SIZE + ALIGN(MaxSize)
MapBase == ALIGN(HeapLimit) + ALIGNMENT
SlotAddr(s) == MapBase + (s - 1) * MapSpan
\* The sizes asked for: zero, one that is not aligned, and the aligned ones.
Sizes == {size \in 0..MaxSize : size <= 1 \/ ALIGN(size) = size}
Counts == {0, 1, 2}

\* Every address a caller could pass as a payload pointer.
Pointers ==
    {NULL} \cup {a \in HeapStart..HeapLimit : a % ALIGNMENT = 0}
           \cup {SlotAddr(s) + ALIGNED_METADATA_SIZE : s \in MapSlots}

\* Before the first call: an empty list, nothing mapped, nothing held.
EmptyHeap ==
    [meta |-> [b \in {} |-> {}],
     head |-> NULL,
     tail |-> NULL,
     brk |-> HeapStart,
     preallocation_done |-> FALSE,
     mapped |-> [s \in MapSlots |-> 0],
     exited |-> FALSE]
NoLive == [p \in {} |-> 0]

\* No allocator runs beside the web server.
NoAllocator ==
    /\ heap = EmptyHeap
    /\ live = NoLive
    /\ used = {}

\* ---------------------------------------------------- the shell's values

\* The operators of a command_t, a missing command (c == NULL), and the
\* statuses of EXIT_SUCCESS and EXIT_FAILURE.
OP_NONE == "OP_NONE"
OP_SEQUENTIAL == "OP_SEQUENTIAL"
OP_PARALLEL == "OP_PARALLEL"
OP_CONDITIONAL_NZERO == "OP_CONDITIONAL_NZERO"
OP_CONDITIONAL_ZERO == "OP_CONDITIONAL_ZERO"
OP_PIPE == "OP_PIPE"
NoCommand == [op |-> "NULL"]
EXIT_SUCCESS == 0
EXIT_FAILURE == 1

\* No shell runs beside the web server.
IdleShell == [pc |-> "idle", c |-> NoCommand, status |-> EXIT_SUCCESS, log |-> <<>>]
NoShell == shell = IdleShell

Init ==
    /\ conn = [c \in Conns |-> NoConnection]
    /\ sk = [c \in Conns |-> NoSocket]
    /\ ep = [c \in Conns |-> "none"]
    /\ aioq = <<>>
    /\ dead = FALSE
    /\ hist = [c \in Conns |-> NoHistory]
    /\ backlog = [pending |-> {1}, reqs |-> Requests]
    /\ NoTraversal
    /\ NoAllocator
    /\ NoShell

InitPair ==
    /\ conn = [c \in Conns |-> NoConnection]
    /\ sk = [c \in Conns |-> NoSocket]
    /\ ep = [c \in Conns |-> "none"]
    /\ aioq = <<>>
    /\ dead = FALSE
    /\ hist = [c \in Conns |-> NoHistory]
    /\ backlog = [pending |-> Conns, reqs |-> StaticRequests]
    /\ NoTraversal
    /\ NoAllocator
    /\ NoShell

\* ---------------------------------------------------------------- worlds
\* The handlers are written as functions of a "world": everything one
\* dispatch on connection c can read or change.
World(c) ==
    [conn |-> conn[c], sk |-> sk[c], ep |-> ep[c], h |-> hist[c],
     q |-> aioq, dead |-> dead, id |-> c]

Install(c, w) ==
    /\ conn' = [conn EXCEPT ![c] = w.conn]
    /\ sk' = [sk EXCEPT ![c] = w.sk]
    /\ ep' = [ep EXCEPT ![c] = w.ep]
    /\ hist' = [hist EXCEPT ![c] = w.h]
    /\ aioq' = w.q
    /\ dead' = w.dead
    /\ UNCHANGED <<backlog, gvars, mvars, svars>>

SetState(w, s) ==
    [w EXCEPT !.conn.state = s, !.h.reached = @ \cup {s}]

\* ------------------------------------------------------ connection_remove
\* close(conn->sockfd): the socket leaves the epoll set with its descriptor.
close_sockfd(w) ==
    IF w.sk.open
    THEN [w EXCEPT !.sk.open = FALSE, !.ep = "none", !.h.sockCloses = @ + 1]
    ELSE [w EXCEPT !.h.badCloses = @ + 1]

\* close(conn->fd)
close_fd(w) ==
    IF w.conn.fd # -1 /\ w.sk.fileOpen
    THEN [w EXCEPT !.sk.fileOpen = FALSE, !.h.fileCloses = @ + 1]
    ELSE [w EXCEPT !.h.badCloses = @ + 1]

\* free(conn)
free(w) == [w EXCEPT !.conn = FreedConnection]

\* The backing file closed without the test for the -1 sentinel.
Mutant_remove_unguarded_close(w) ==
    LET closed == [SetState(close_sockfd(w), STATE_CONNECTION_CLOSED)
                        EXCEPT !.h.removes = @ + 1]
    IN free(close_fd(closed))

connection_remove(w) ==
    LET closed == [SetState(close_sockfd(w), STATE_CONNECTION_CLOSED)
                        EXCEPT !.h.removes = @ + 1]
    IN free(IF closed.conn.fd # -1 THEN close_fd(closed) ELSE closed)

\* ----------------------------------------------------------- receive_data
\* recv(2) on the non-blocking socket: what is queued, up to len; 0 once
\* the peer has closed (or len is 0); -1 when nothing is queued.
recv(w, len) ==
    IF len = 0 THEN 0
    ELSE IF w.sk.unread > 0 THEN Min(w.sk.unread, len)
    ELSE IF w.sk.peerClosed THEN 0
    ELSE -1

\* strstr(recv_buffer, "\r\n\r\n") once `stored` units are in the buffer.
HasTerminator(stored) == stored >= ReqLen

RECURSIVE receive_data(_)
receive_data(w) ==
    LET bytes_recv == recv(w, BUFSIZ - w.conn.recv_len)
        got == IF bytes_recv > 0
               THEN [w EXCEPT !.sk.unread = @ - bytes_recv,
                              !.h.stored = @ + bytes_recv]
               ELSE w
    IN IF bytes_recv < 0 THEN w
       ELSE IF bytes_recv = 0 \/ HasTerminator(got.h.stored)
       THEN [got EXCEPT !.h.eofPartial =
                 @ \/ (bytes_recv = 0 /\ w.sk.peerClosed /\ w.sk.unread = 0
                        /\ got.h.stored > 0 /\ ~HasTerminator(got.h.stored))]
       ELSE receive_data([got EXCEPT !.conn.recv_len = @ + bytes_recv])

\* ----------------------------------------------------------- handle_input
w_epoll_update_ptr_out(w) == [w EXCEPT !.ep = "out"]
w_epoll_update_ptr_in(w) == [w EXCEPT !.ep = "in"]

handle_input(w) ==
    IF w.conn.state = STATE_INITIAL
    THEN w_epoll_update_ptr_out(SetState(w, STATE_RECEIVING_DATA))
    ELSE IF w.conn.state = STATE_RECEIVING_DATA
    THEN LET r == receive_data(w)
         IN IF r.conn.recv_len <= 0
            THEN connection_remove(r)
            ELSE w_epoll_update_ptr_out(SetState(r, STATE_REQUEST_RECEIVED))
    ELSE w_epoll_update_ptr_out(w)

Fault(w) == [w EXCEPT !.h.faults = @ + 1]
MayFault(w) == w.h.faults < MaxFaults

\* ----------------------------------------------------------- parse_header
\* http_parser_execute over recv_len units: the parser consumes all of a
\* well-formed prefix (and reports the path through aws_on_path_cb) and
\* stops short on a request line it rejects.
aws_on_path_cb(w) ==
    [w EXCEPT !.conn.request_path = w.sk.req.path, !.conn.have_path = 1]

http_parser_execute(w) ==
    IF w.sk.req.ok
    THEN [w |-> aws_on_path_cb(w), nparsed |-> w.conn.recv_len]
    ELSE [w |-> w, nparsed |-> 0]

parse_header(w) ==
    LET r == http_parser_execute(w)
    IN [w |-> r.w, rc |-> IF r.nparsed # w.conn.recv_len THEN -1 ELSE 0]

\* ------------------------------------------- connection_get_resource_type
\* strstr(haystack, needle): the index (from 0) of the first occurrence,
\* -1 for NULL.  The folder names occur in the directory part only.
strstr(dirs, needle) ==
    LET hits == {i \in 1..Len(dirs) : dirs[i] = needle}
    IN IF hits = {} THEN -1
       ELSE (CHOOSE i \in hits : \A j \in hits : i <= j) - 1

\* The folder names looked for anywhere in the path.
Mutant_resource_type_anywhere(request_path) ==
    IF strstr(request_path.dirs, AWS_REL_STATIC_FOLDER) >= 1
    THEN RESOURCE_TYPE_STATIC
    ELSE IF strstr(request_path.dirs, AWS_REL_DYNAMIC_FOLDER) >= 1
    THEN RESOURCE_TYPE_DYNAMIC
    ELSE RESOURCE_TYPE_NONE

connection_get_resource_type(request_path) ==
    IF strstr(request_path.dirs, AWS_REL_STATIC_FOLDER) = 1
    THEN RESOURCE_TYPE_STATIC
    ELSE IF strstr(request_path.dirs, AWS_REL_DYNAMIC_FOLDER) = 1
    THEN RESOURCE_TYPE_DYNAMIC
    ELSE RESOURCE_TYPE_NONE

\* --------------------------------------------------- connection_open_file
\* The descriptor field written on the failure path as well.
Mutant_open_file_stores_fd(w) ==
    IF ~FileExists(w.conn.request_path)
    THEN SetState([w EXCEPT !.conn.fd = 3], STATE_SENDING_404)
    ELSE SetState([w EXCEPT !.conn.fd = 3, !.sk.file = w.conn.request_path,
                            !.sk.fileOpen = TRUE],
                  STATE_SENDING_HEADER)

connection_open_file(w) ==
    IF ~FileExists(w.conn.request_path)
    THEN SetState(w, STATE_SENDING_404)
    ELSE SetState([w EXCEPT !.conn.fd = 3, !.sk.file = w.conn.request_path,
                            !.sk.fileOpen = TRUE],
                  STATE_SENDING_HEADER)

\* ------------------------------------------------ the two header builders
\* fstat(conn->fd, &st); st.st_size.  On fd = -1 fstat fails and st is read
\* uninitialised: any value.
fstat_size(w) ==
    IF w.conn.fd # -1 THEN {FileSize(w.sk.file)} ELSE 0..(SizeMod - 1)

\* The reply header built with the status line of the 404 header.
Mutant_reply_header_404(w) ==
    {SetState([w EXCEPT !.conn.file_size = size,
                        !.conn.send_buffer = "404", !.conn.send_cl = size,
                        !.conn.send_len = HdrLen],
              STATE_SENDING_DATA) : size \in fstat_size(w)}

connection_prepare_send_reply_header(w) ==
    {SetState([w EXCEPT !.conn.file_size = size,
                        !.conn.send_buffer = "200", !.conn.send_cl = size,
                        !.conn.send_len = HdrLen],
              STATE_SENDING_DATA) : size \in fstat_size(w)}

connection_prepare_send_404(w) ==
    {SetState([w EXCEPT !.conn.file_size = size,
                        !.conn.send_buffer = "404", !.conn.send_cl = size,
                        !.conn.send_len = HdrLen],
              STATE_404_SENT) : size \in fstat_size(w)}

\* ------------------------------------------------- connection_send_static
\* sendfile(sockfd, fd, NULL, count) from the descriptor's own offset `off`:
\* some of the units left in the file, at most count, or -1.
sendfile(w, off, count) ==
    (1..Min(count, FileSize(w.sk.file) - off)) \cup (IF MayFault(w) THEN {-1} ELSE {})

\* The units of the file at off.. reach the wire behind the `body` units
\* already there.
WireBody(w, off, n) ==
    [w EXCEPT !.sk.body = @ + n, !.sk.bodyOK = @ /\ off = w.sk.body]

\* The while loop: the worlds it can end in, with the state it returns.
RECURSIVE send_static_loop(_, _)
send_static_loop(w, total_bytes_sent) ==
    IF total_bytes_sent < w.conn.file_size
    THEN UNION {
            IF bytes_sent < 0
            THEN {[w |-> Fault(w), state |-> STATE_DATA_SENT]}
            ELSE send_static_loop(WireBody(w, total_bytes_sent, bytes_sent),
                                  total_bytes_sent + bytes_sent)
            : bytes_sent \in sendfile(w, total_bytes_sent, w.conn.file_size)}
    ELSE LET left == (w.conn.file_size - total_bytes_sent) % SizeMod
         IN {[w |-> [w EXCEPT !.conn.file_size = left],
              state |-> IF left = 0 THEN STATE_DATA_SENT ELSE STATE_SENDING_DATA]}

connection_send_static(w) == send_static_loop(w, 0)

\* --------------------------------------------------- connection_send_data
\* send(sockfd, send_buffer + total, len, 0): some of the units, or -1.
send(w, len) == (1..len) \cup (IF MayFault(w) THEN {-1} ELSE {})

WireHeader(w, n) ==
    IF w.conn.send_buffer = "404"
    THEN [w EXCEPT !.sk.hdr404 = @ + n, !.sk.hdrCL = w.conn.send_cl]
    ELSE [w EXCEPT !.sk.hdr200 = @ + n, !.sk.hdrCL = w.conn.send_cl]

\* The while loop: the worlds it can end in, with total_bytes_sent, or -1
\* where send failed.
RECURSIVE send_data_loop(_, _)
send_data_loop(w, total_bytes_sent) ==
    IF total_bytes_sent < w.conn.send_len
    THEN UNION {
            IF bytes_sent < 0
            THEN {[w |-> Fault(w), total |-> -1]}
            ELSE send_data_loop(WireHeader(w, bytes_sent),
                                total_bytes_sent + bytes_sent)
            : bytes_sent \in send(w, w.conn.send_len - total_bytes_sent)}
    ELSE {[w |-> w, total |-> total_bytes_sent]}

\* After the loop: what follows the flushed buffer.
\* A connection that is not static marked dynamic on its way to the
\* asynchronous chunks.
Mutant_send_data_next_retypes(w) ==
    IF w.conn.fd = -1
    THEN {SetState(w, STATE_DATA_SENT)}
    ELSE IF w.conn.res_type = RESOURCE_TYPE_STATIC
    THEN {SetState(r.w, r.state) : r \in connection_send_static(w)}
    ELSE {SetState([w EXCEPT !.conn.res_type = RESOURCE_TYPE_DYNAMIC],
                   STATE_ASYNC_ONGOING)}

send_data_next(w) ==
    IF w.conn.fd = -1
    THEN {SetState(w, STATE_DATA_SENT)}
    ELSE IF w.conn.res_type = RESOURCE_TYPE_STATIC
    THEN {SetState(r.w, r.state) : r \in connection_send_static(w)}
    ELSE {SetState(w, STATE_ASYNC_ONGOING)}

\* The state chosen before the result of the flush is looked at.
Mutant_send_data_error_advances(w) ==
    UNION {
        IF l.total < 0
        THEN {[w |-> n, rc |-> -1] : n \in send_data_next(l.w)}
        ELSE {[w |-> n, rc |-> l.total] :
                n \in send_data_next(
                        [l.w EXCEPT !.conn.send_len = (@ - l.total) % SizeMod])}
        : l \in send_data_loop(w, 0)}

connection_send_data(w) ==
    UNION {
        IF l.total < 0
        THEN {[w |-> l.w, rc |-> -1]}
        ELSE {[w |-> n, rc |-> l.total] :
                n \in send_data_next(
                        [l.w EXCEPT !.conn.send_len = (@ - l.total) % SizeMod])}
        : l \in send_data_loop(w, 0)}

\* ---------------------------------------------- connection_start_async_io
\* An operation of ctx, executed by the kernel, leaves its completion in
\* the context's queue until io_getevents takes it.
Completion(w, op, res) == [c |-> w.id, op |-> op, res |-> res]

\* io_submit(ctx, 1, piocb) returns 1 while the context has a free slot.
io_submit_ok(w, inflight) == Len(w.q) + inflight < AioSlots

\* pread(fd, recv_buffer, BUFSIZ, file_pos) as the kernel runs it: the units
\* the file has at file_pos, at most BUFSIZ, or an error.
aio_pread(w) ==
    {Min(BUFSIZ, IF FileSize(w.sk.file) > w.conn.file_pos
                 THEN FileSize(w.sk.file) - w.conn.file_pos ELSE 0),
     -1}

\* pwrite(sockfd, recv_buffer, BUFSIZ, 0) as the kernel runs it: all of the
\* buffer, part of it, or an error.
aio_pwrite == (1..BUFSIZ) \cup {-1}

\* Both operations are in flight at once; the kernel may run them in the
\* order submitted ("rw") or the write first ("wr").
AioOrders == {"rw", "wr"}

\* The irregular outcomes among one dispatch's three choices.
Irregular(order, rres, wres) ==
    (IF order = "wr" THEN 1 ELSE 0) + (IF rres < 0 THEN 1 ELSE 0)
        + (IF wres # BUFSIZ THEN 1 ELSE 0)

\* The read has run: recv_buffer starts with res units of the file.
RunRead(w, res) ==
    IF res > 0
    THEN [w EXCEPT !.conn.recv_buffer = [off |-> w.conn.file_pos, n |-> res]]
    ELSE w

\* The write has run: res units of recv_buffer are on the wire.
RunWrite(w, res) ==
    IF res > 0
    THEN LET b == w.conn.recv_buffer
         IN [w EXCEPT !.sk.body = @ + res,
                      !.sk.bodyOK = @ /\ b.n >= res /\ b.off = w.sk.body]
    ELSE w

LogChunk(w, order, rres, wres) ==
    [w EXCEPT !.h.chunks =
        Append(@, [off |-> w.conn.file_pos, order |-> order,
                   nread |-> IF rres > 0 THEN rres ELSE 0,
                   nwritten |-> IF wres > 0 THEN wres ELSE 0])]

\* exit(EXIT_FAILURE)
exit(w) == [w EXCEPT !.dead = TRUE]

\* One dispatch's pair of operations, run by the kernel in `order`.
SubmitPair(w, order, rres, wres) ==
    LET ran == IF order = "rw" THEN RunWrite(RunRead(w, rres), wres)
               ELSE RunRead(RunWrite(w, wres), rres)
        evs == IF order = "rw"
               THEN <<Completion(w, "read", rres), Completion(w, "write", wres)>>
               ELSE <<Completion(w, "write", wres), Completion(w, "read", rres)>>
    IN LogChunk([ran EXCEPT !.q = @ \o evs,
                            !.h.faults = @ + Irregular(order, rres, wres)],
                order, rres, wres)

connection_start_async_io(w) ==
    IF ~io_submit_ok(w, 0) \/ ~io_submit_ok(w, 1)
    THEN {exit(w)}
    ELSE {SubmitPair(w, t[1], t[2], t[3]) :
            t \in {t \in AioOrders \X aio_pread(w) \X aio_pwrite :
                    w.h.faults + Irregular(t[1], t[2], t[3]) <= MaxFaults}}

\* ------------------------------------------- connection_complete_async_io
\* io_getevents(ctx, 1, 1, &event, NULL): the oldest completion of ctx.
io_getevents(w) == [w |-> [w EXCEPT !.q = Tail(@)], event |-> Head(w.q)]

\* A chunk that leaves units to send hands the connection back to
\* SENDING_DATA.
Mutant_complete_async_io_resends(w) ==
    LET g1 == io_getevents(w)
    IN IF g1.event.res < 0 THEN g1.w
       ELSE LET w1 == [g1.w EXCEPT !.conn.file_pos = (@ + g1.event.res) % SizeMod]
                g2 == io_getevents(w1)
            IN IF g2.event.res # BUFSIZ THEN g2.w
               ELSE LET left == (w1.conn.file_size - BUFSIZ) % SizeMod
                    IN SetState([g2.w EXCEPT !.conn.file_size = left],
                                IF left = 0 THEN STATE_DATA_SENT
                                ELSE STATE_SENDING_DATA)

connection_complete_async_io(w) ==
    LET g1 == io_getevents(w)
    IN IF g1.event.res < 0 THEN g1.w
       ELSE LET w1 == [g1.w EXCEPT !.conn.file_pos = (@ + g1.event.res) % SizeMod]
                g2 == io_getevents(w1)
            IN IF g2.event.res # BUFSIZ THEN g2.w
               ELSE LET left == (w1.conn.file_size - BUFSIZ) % SizeMod
                    IN SetState([g2.w EXCEPT !.conn.file_size = left],
                                IF left = 0 THEN STATE_DATA_SENT
                                ELSE STATE_ASYNC_ONGOING)

\* ------------------------------------------------ connection_send_dynamic
connection_send_dynamic(w) ==
    {IF s.dead THEN s ELSE connection_complete_async_io(s)
        : s \in connection_start_async_io(w)}

\* ---------------------------------------------------------- handle_output
\* The lines after the switch: conn->res_type is read and, for
\* RESOURCE_TYPE_NONE, the socket is re-armed for input.  When the switch
\* has released the record, the read is of freed memory: it yields any
\* value, and on RESOURCE_TYPE_NONE the update is of a descriptor closed in
\* this very dispatch, which fails: DIE.  (A fault on the read ends the
\* process as well.)
handle_output_tail(w) ==
    IF w.conn.live
    THEN {IF w.conn.res_type = RESOURCE_TYPE_NONE THEN w_epoll_update_ptr_in(w) ELSE w}
    ELSE {LET u == [w EXCEPT !.h.freedUse = @ + 1]
          IN IF res_type = RESOURCE_TYPE_NONE THEN exit(u) ELSE u
          : res_type \in ResourceTypes}

\* w_epoll_update_fd_in(epollfd, conn->sockfd)
w_epoll_update_fd_in(w) == [w EXCEPT !.ep = "in"]

handle_output_switch(w) ==
    CASE w.conn.state = STATE_REQUEST_RECEIVED ->
            LET p == parse_header(w)
            IN IF p.rc < 0
               THEN {[w |-> connection_remove(SetState(p.w, STATE_SENDING_404)),
                      return |-> FALSE]}
               ELSE {[w |-> connection_open_file(
                                [p.w EXCEPT !.conn.res_type =
                                    connection_get_resource_type(p.w.conn.request_path)]),
                      return |-> FALSE]}
      [] w.conn.state = STATE_SENDING_404 ->
            {[w |-> n, return |-> FALSE] : n \in connection_prepare_send_404(w)}
      [] w.conn.state = STATE_SENDING_HEADER ->
            {[w |-> n, return |-> FALSE] : n \in connection_prepare_send_reply_header(w)}
      [] w.conn.state = STATE_SENDING_DATA ->
            {IF r.rc <= 0
             THEN [w |-> connection_remove(r.w), return |-> TRUE]
             ELSE [w |-> r.w, return |-> FALSE]
             : r \in connection_send_data(w)}
      [] w.conn.state = STATE_ASYNC_ONGOING ->
            {[w |-> n, return |-> n.dead] : n \in connection_send_dynamic(w)}
      [] w.conn.state \in {STATE_DATA_SENT, STATE_HEADER_SENT} ->
            {[w |-> connection_remove(w_epoll_update_fd_in(w)), return |-> FALSE]}
      [] w.conn.state = STATE_404_SENT ->
            {[w |-> connection_remove(w), return |-> FALSE]}
      [] OTHER -> {[w |-> w, return |-> FALSE]}

handle_output(w) ==
    UNION {IF r.return THEN {r.w} ELSE handle_output_tail(r.w)
            : r \in handle_output_switch(w)}

\* ---------------------------------------------------------- the event loop
\* handle_new_connection: accept, connection_create, w_epoll_add_ptr_in.
\* The peer behind the new socket has a request of ReqLen units to send.
\* accept(2) may fail (the peer reset the connection before it was taken,
\* no descriptor is free): DIE.
handle_new_connection(c, req) ==
    /\ ~dead
    /\ c \in backlog.pending
    /\ req \in backlog.reqs
    /\ \/ /\ backlog' = [backlog EXCEPT !.pending = @ \ {c}]
          /\ conn' = [conn EXCEPT ![c] = connection_create]
          /\ sk' = [sk EXCEPT ![c] = [NoSocket EXCEPT !.open = TRUE, !.req = req,
                                                      !.peerLeft = ReqLen]]
          /\ ep' = [ep EXCEPT ![c] = "in"]
          /\ hist' = [hist EXCEPT ![c].reached = {STATE_INITIAL}]
          /\ UNCHANGED <<aioq, dead, gvars, mvars, svars>>
       \/ /\ dead' = TRUE
          /\ UNCHANGED <<conn, sk, ep, aioq, hist, backlog, gvars, mvars, svars>>

\* The peer sends the next n units of its request.
PeerSend(c, n) ==
    /\ ~dead
    /\ sk[c].open /\ ~sk[c].peerClosed
    /\ n \in 1..sk[c].peerLeft
    /\ sk' = [sk EXCEPT ![c].peerLeft = @ - n, ![c].unread = @ + n]
    /\ UNCHANGED <<conn, ep, aioq, dead, hist, backlog, gvars, mvars, svars>>

\* The peer closes its end.
PeerClose(c) ==
    /\ ~dead
    /\ sk[c].open /\ ~sk[c].peerClosed
    /\ sk' = [sk EXCEPT ![c].peerClosed = TRUE]
    /\ UNCHANGED <<conn, ep, aioq, dead, hist, backlog, gvars, mvars, svars>>

\* epoll reports EPOLLIN on a socket armed for input that has units queued
\* or whose peer has closed; EPOLLOUT on a socket armed for output.
Readable(c) == sk[c].unread > 0 \/ sk[c].peerClosed

\* handle_client(EPOLLIN, conn)
InputReady(c) ==
    /\ ~dead
    /\ ep[c] = "in" /\ Readable(c)
    /\ Install(c, handle_input(World(c)))

\* handle_client(EPOLLOUT, conn)
OutputReady(c) ==
    /\ ~dead
    /\ ep[c] = "out"
    /\ conn[c].state = STATE_ASYNC_ONGOING => Len(hist[c].chunks) < MaxChunks
    /\ \E w \in handle_output(World(c)) : Install(c, w)

Next ==
    \E c \in Conns :
        \/ \E req \in AllRequests : handle_new_connection(c, req)
        \/ \E n \in 1..ReqLen : PeerSend(c, n)
        \/ PeerClose(c)
        \/ InputReady(c)
        \/ OutputReady(c)

Spec == Init /\ [][Next]_vars

SpecPair == InitPair /\ [][Next]_vars

\* Two connections whose peers ask for dynamic files of one and of two
\* chunks: they share the asynchronous-I/O context.
DynamicRequests ==
    {Request(Path(<<"/", AWS_REL_DYNAMIC_FOLDER>>, n), TRUE) : n \in {BUFSIZ, BUFSIZ + BUFSIZ}}

InitDynamicPair ==
    /\ conn = [c \in Conns |-> NoConnection]
    /\ sk = [c \in Conns |-> NoSocket]
    /\ ep = [c \in Conns |-> "none"]
    /\ aioq = <<>>
    /\ dead = FALSE
    /\ hist = [c \in Conns |-> NoHistory]
    /\ backlog = [pending |-> Conns, reqs |-> DynamicRequests]
    /\ NoTraversal
    /\ NoAllocator
    /\ NoShell

SpecDynamicPair == InitDynamicPair /\ [][Next]_vars

\* One connection whose peer sends one of ClassifierRequests.
InitClassifier ==
    /\ conn = [c \in Conns |-> NoConnection]
    /\ sk = [c \in Conns |-> NoSocket]
    /\ ep = [c \in Conns |-> "none"]
    /\ aioq = <<>>
    /\ dead = FALSE
    /\ hist = [c \in Conns |-> NoHistory]
    /\ backlog = [pending |-> {1}, reqs |-> ClassifierRequests]
    /\ NoTraversal
    /\ NoAllocator
    /\ NoShell

SpecClassifier == InitClassifier /\ [][Next]_vars

\* ================================================== parallel graph traversal
\* What the critical section of process_node reads and writes.
GraphWorld == [graph |-> graph, tp |-> tp, visits |-> visits]

\* enqueue_task(tp, task) for the task of node idx
enqueue_task(w, idx) ==
    [w EXCEPT !.tp = Append(@, idx), !.visits[idx].enqueued = @ + 1]

\* The neighbour enqueued without the PROCESSING mark.
Mutant_neighbour_unmarked(w, nb) ==
    IF w.graph.visited[nb] = NOT_VISITED
    THEN enqueue_task(w, nb)
    ELSE w

\* The body of the for loop, between lock and unlock of graph_mutex.
process_node_neighbour(w, nb) ==
    IF w.graph.visited[nb] = NOT_VISITED
    THEN enqueue_task([w EXCEPT !.graph.visited[nb] = PROCESSING], nb)
    ELSE w

\* graph->visited[idx] = DONE, outside the mutex
process_node_visited(t) ==
    /\ thread[t].pc = "visited"
    /\ graph' = [graph EXCEPT !.visited[thread[t].idx] = DONE]
    /\ thread' = [thread EXCEPT ![t].pc = "sum"]
    /\ UNCHANGED <<tp, sum, visits, avars, mvars, svars>>

\* sum += node->info
process_node_sum(t) ==
    /\ thread[t].pc = "sum"
    /\ sum' = sum + graph.nodes[thread[t].idx].info
    /\ visits' = [visits EXCEPT ![thread[t].idx].added = @ + 1]
    /\ thread' = [thread EXCEPT ![t].pc = "for", ![t].i = 0]
    /\ UNCHANGED <<graph, tp, avars, mvars, svars>>

\* One iteration of the for loop: graph_mutex makes it one step.
process_node_for(t) ==
    /\ thread[t].pc = "for"
    /\ thread[t].i < graph.nodes[thread[t].idx].num_neighbours
    /\ LET node == graph.nodes[thread[t].idx]
           w == process_node_neighbour(GraphWorld, node.neighbours[thread[t].i + 1])
       IN /\ graph' = w.graph
          /\ tp' = w.tp
          /\ visits' = w.visits
    /\ thread' = [thread EXCEPT ![t].i = @ + 1]
    /\ UNCHANGED <<sum, avars, mvars, svars>>

\* process_node returns: main goes on to wait_for_completion, a worker to
\* its next task.
process_node_return(t) ==
    /\ thread[t].pc = "for"
    /\ thread[t].i = graph.nodes[thread[t].idx].num_neighbours
    /\ thread' = [thread EXCEPT ![t] =
                    IF t = MainThread THEN ThreadAt("wait", 0, 0) ELSE IdleThread]
    /\ UNCHANGED <<graph, tp, sum, visits, avars, mvars, svars>>

\* A worker takes the oldest task and calls process_node_wrapper.
dequeue_task(t) ==
    /\ t \in Workers
    /\ thread[t].pc = "idle"
    /\ tp # <<>>
    /\ thread' = [thread EXCEPT ![t] = ThreadAt("visited", Head(tp), 0)]
    /\ tp' = Tail(tp)
    /\ UNCHANGED <<graph, sum, visits, avars, mvars, svars>>

\* wait_for_completion(tp) returns once no task is queued or running.
wait_for_completion ==
    /\ thread[MainThread].pc = "wait"
    /\ tp = <<>>
    /\ \A t \in Workers : thread[t].pc = "idle"
    /\ thread' = [thread EXCEPT ![MainThread].pc = "done"]
    /\ UNCHANGED <<graph, tp, sum, visits, avars, mvars, svars>>

\* main after create_threadpool, about to call process_node(0); no web
\* server runs beside it.
InitGraph ==
    /\ conn = [c \in Conns |-> NoConnection]
    /\ sk = [c \in Conns |-> NoSocket]
    /\ ep = [c \in Conns |-> "none"]
    /\ aioq = <<>>
    /\ dead = FALSE
    /\ hist = [c \in Conns |-> NoHistory]
    /\ backlog = [pending |-> {}, reqs |-> {}]
    /\ graph \in {create_graph_from_file(adj) : adj \in Adjacencies}
    /\ tp = <<>>
    /\ thread = [t \in Threads |->
                    IF t = MainThread THEN ThreadAt("visited", 0, 0) ELSE IdleThread]
    /\ sum = 0
    /\ visits = NoVisits
    /\ NoAllocator
    /\ NoShell

NextGraph ==
    \/ \E t \in Threads :
            \/ process_node_visited(t)
            \/ process_node_sum(t)
            \/ process_node_for(t)
            \/ process_node_return(t)
            \/ dequeue_task(t)
    \/ wait_for_completion

SpecGraph == InitGraph /\ [][NextGraph]_vars

\* =================================================================== claims
\* What a connection's wire shows.
TornDown(c) == hist[c].removes > 0
Sent404(c) == sk[c].hdr404 = HdrLen
SentFile(c) ==
    /\ sk[c].hdr200 = HdrLen
    /\ sk[c].body = sk[c].hdrCL
    /\ sk[c].bodyOK
ClassOf(c) == connection_get_resource_type(sk[c].req.path)
StaticDone(c) == SentFile(c) /\ ClassOf(c) = RESOURCE_TYPE_STATIC
DynamicDone(c) ==
    /\ SentFile(c)
    /\ ClassOf(c) # RESOURCE_TYPE_STATIC
    /\ STATE_DATA_SENT \in hist[c].reached
Outcomes(c) ==
    (IF Sent404(c) THEN 1 ELSE 0) + (IF StaticDone(c) THEN 1 ELSE 0)
        + (IF DynamicDone(c) THEN 1 ELSE 0)
\* The peer has sent its whole request and has not closed its end.
RequestDelivered(c) == sk[c].req.ok /\ sk[c].peerLeft = 0 /\ ~sk[c].peerClosed
FaultFree(c) == hist[c].faults = 0

\* The peer of c closed its end without sending any unit of a request.
SilentPeer(c) == sk[c].peerClosed /\ sk[c].peerLeft = ReqLen

HeaderComplete(c) == sk[c].hdr200 = HdrLen \/ sk[c].hdr404 = HdrLen

\* C2, as claimed, for the connections on which no system call failed or
\* fell short: once the header is written, the body units on the wire never
\* exceed its Content-Length and equal it at teardown.
C2_ContentLengthIsBodyLength ==
    \A c \in Conns :
        FaultFree(c) /\ HeaderComplete(c) =>
            /\ sk[c].body <= sk[c].hdrCL
            /\ TornDown(c) => sk[c].body = sk[c].hdrCL

RECURSIVE SumRead(_)
SumRead(chunks) ==
    IF chunks = <<>> THEN 0 ELSE Head(chunks).nread + SumRead(Tail(chunks))

\* C3, as claimed, for the connections on which no system call failed or
\* fell short: each chunk's read starts where the previous chunk's read
\* ended, at a strictly larger offset, and when DATA_SENT is reached the
\* units read add up to the size of the file.
C3_ChunksInOrder ==
    \A c \in Conns :
        FaultFree(c) =>
            LET L == hist[c].chunks
            IN /\ \A i \in 1..(Len(L) - 1) :
                    /\ L[i + 1].off = L[i].off + L[i].nread
                    /\ L[i + 1].off > L[i].off
               /\ (L # <<>> /\ STATE_DATA_SENT \in hist[c].reached)
                    => SumRead(L) = FileSize(sk[c].file)

\* C4: connection_remove runs at most once per connection; the socket is
\* closed at most once and exactly once by teardown; the backing file is
\* closed exactly once by teardown when it was opened, and no close(2) is
\* ever issued on a descriptor that is not open (the -1 sentinel, or one
\* closed before).
C4_TeardownOnce ==
    \A c \in Conns :
        /\ hist[c].removes <= 1
        /\ hist[c].sockCloses = hist[c].removes
        /\ hist[c].badCloses = 0
        /\ hist[c].fileCloses =
                (IF TornDown(c) /\ sk[c].file # NoPath THEN 1 ELSE 0)
        /\ TornDown(c) => ~sk[c].open /\ ~sk[c].fileOpen /\ ~conn[c].live

\* A connection torn down with its backing file open: both descriptors
\* closed once.
C4_Witness ==
    \E c \in Conns :
        /\ hist[c].removes = 1 /\ hist[c].sockCloses = 1
        /\ sk[c].file # NoPath /\ hist[c].fileCloses = 1

\* C5, as claimed: nothing touches a connection record after
\* connection_remove has released it.
C5_NoUseAfterTeardown ==
    \A c \in Conns : hist[c].freedUse = 0

\* C6, as claimed: a connection that was sent to SENDING_404 because its
\* file could not be opened passes through SENDING_DATA and is not torn
\* down before the whole 404 header is on the wire.
C6_404Flushed ==
    \A c \in Conns :
        (/\ TornDown(c) /\ FaultFree(c) /\ sk[c].req.ok
         /\ STATE_SENDING_404 \in hist[c].reached)
            => /\ Sent404(c)
               /\ STATE_SENDING_DATA \in hist[c].reached

\* C7, as claimed: once recv has returned 0 on a partial request the
\* connection never enters REQUEST_RECEIVED and no response unit is written.
C7_PartialThenCloseIsError ==
    \A c \in Conns :
        hist[c].eofPartial =>
            /\ STATE_REQUEST_RECEIVED \notin hist[c].reached
            /\ sk[c].hdr200 = 0 /\ sk[c].hdr404 = 0 /\ sk[c].body = 0

\* The peer of c asks, in a well-formed request it delivers whole, for an
\* existing file of class t.
Asks(c, t) ==
    /\ RequestDelivered(c)
    /\ ClassOf(c) = t
    /\ FileExists(sk[c].req.path)

\* C8, as claimed, for the connections on which no system call failed or
\* fell short: no body unit precedes the end of the 200 header, and at
\* teardown the wire holds the 200 header with Content-Length N followed by
\* the N units of the file.
C8_StaticScenario ==
    \A c \in Conns :
        (Asks(c, RESOURCE_TYPE_STATIC) /\ FaultFree(c)) =>
            /\ sk[c].body > 0 => sk[c].hdr200 = HdrLen
            /\ TornDown(c) =>
                /\ sk[c].hdr200 = HdrLen /\ sk[c].hdr404 = 0
                /\ sk[c].hdrCL = FileSize(sk[c].req.path)
                /\ sk[c].body = FileSize(sk[c].req.path) /\ sk[c].bodyOK

\* C9, as claimed, for the connections on which no system call failed or
\* fell short: a dynamic file of k chunks, k >= 1, never sees more than k
\* dispatches of ASYNC_ONGOING, and at teardown it has seen exactly k, each
\* with one read and one write, and has passed through DATA_SENT.
C9_DynamicScenario ==
    \A c \in Conns :
        (/\ Asks(c, RESOURCE_TYPE_DYNAMIC) /\ FaultFree(c)
         /\ FileSize(sk[c].req.path) > 0
         /\ FileSize(sk[c].req.path) % BUFSIZ = 0)
            => LET k == FileSize(sk[c].req.path) \div BUFSIZ
               IN /\ Len(hist[c].chunks) <= k
                  /\ TornDown(c) =>
                        /\ Len(hist[c].chunks) = k
                        /\ STATE_DATA_SENT \in hist[c].reached

\* What the peer of c has received.
Wire(c) ==
    [hdr200 |-> sk[c].hdr200, hdr404 |-> sk[c].hdr404, hdrCL |-> sk[c].hdrCL,
     body |-> sk[c].body, bodyOK |-> sk[c].bodyOK]

\* C10, as claimed, for the connections on which no system call failed or
\* fell short: two torn-down connections whose peers delivered the same
\* well-formed request for the same static file, in whatever segments, have
\* received the same header and body.
C10_StaticDeterminism ==
    \A c, d \in Conns :
        (/\ TornDown(c) /\ TornDown(d)
         /\ FaultFree(c) /\ FaultFree(d)
         /\ Asks(c, RESOURCE_TYPE_STATIC) /\ Asks(d, RESOURCE_TYPE_STATIC)
         /\ sk[c].req = sk[d].req)
            => Wire(c) = Wire(d)

\* C11, as claimed: no condition of one connection (a failed accept, a
\* malformed request, a failed interest-set update, a failed submission of
\* asynchronous I/O, a send or receive error) ends the process.
C11_LoopSurvives == ~dead

\* C12, as claimed, for the connections on which no system call failed or
\* fell short: a well-formed request whose path is under neither folder
\* gets no 200 header and no unit of any file, and when the connection is
\* torn down it has been answered with a 404.
C12_NoneIs404 ==
    \A c \in Conns :
        (/\ sk[c].req.ok /\ FaultFree(c)
         /\ ClassOf(c) = RESOURCE_TYPE_NONE)
            => /\ sk[c].hdr200 = 0 /\ sk[c].body = 0
               /\ (TornDown(c) /\ STATE_REQUEST_RECEIVED \in hist[c].reached)
                    => Sent404(c)

\* C13, as claimed: a connection has entered REQUEST_RECEIVED exactly when
\* its input dispatches have seen the end-of-headers terminator in
\* recv_buffer: a request that arrives whole in one read reaches
\* REQUEST_RECEIVED, and a dispatch that ends with units buffered but no
\* terminator leaves the connection in RECEIVING.
C13_ReceivedIffTerminator ==
    \A c \in Conns :
        (STATE_REQUEST_RECEIVED \in hist[c].reached)
            <=> HasTerminator(hist[c].stored)

\* C14, as claimed: the dispatch that finds a connection in REQUEST_RECEIVED
\* with a request the parser rejects moves it to SENDING_404 and leaves it
\* alive; it does not tear it down.
C14_ParseErrorStaysAlive ==
    [][\A c \in Conns :
        (/\ conn[c].state = STATE_REQUEST_RECEIVED
         /\ ~sk[c].req.ok
         /\ conn'[c] # conn[c])
            => /\ conn'[c].live
               /\ conn'[c].state = STATE_SENDING_404
               /\ hist'[c].removes = 0]_vars

\* C15: the dispatch that finds a connection in REQUEST_RECEIVED with a
\* request the parser accepts tries to open the file, whatever the resource
\* type: if the open fails the connection is in SENDING_404 with fd still
\* -1 and no file open; if it succeeds fd holds the descriptor of the
\* requested file and the connection is in SENDING_HEADER.
C15_OpenFileOutcome ==
    [][\A c \in Conns :
        (/\ conn[c].state = STATE_REQUEST_RECEIVED
         /\ sk[c].req.ok
         /\ conn'[c] # conn[c])
            => IF FileExists(sk[c].req.path)
               THEN /\ conn'[c].state = STATE_SENDING_HEADER
                    /\ conn'[c].fd # -1
                    /\ sk'[c].fileOpen /\ sk'[c].file = sk[c].req.path
                    /\ conn'[c].res_type = ClassOf(c)
               ELSE /\ conn'[c].state = STATE_SENDING_404
                    /\ conn'[c].fd = -1
                    /\ ~sk'[c].fileOpen
                    /\ conn'[c].res_type = ClassOf(c)]_vars

\* A connection of type none whose open has failed: SENDING_404, no
\* descriptor.
C15_Witness ==
    \E c \in Conns :
        /\ sk[c].req.ok /\ ~FileExists(sk[c].req.path)
        /\ ClassOf(c) = RESOURCE_TYPE_NONE
        /\ conn[c].live /\ conn[c].have_path = 1
        /\ conn[c].state = STATE_SENDING_404 /\ conn[c].fd = -1

\* Header units on c's wire.
HeaderUnits(s) == s.hdr200 + s.hdr404

\* C16: a dispatch that finds a connection in SENDING_DATA either puts all
\* send_len units of send_buffer on the wire, in as many send calls as it
\* takes, and only then changes the state; or a send fails, and then the
\* connection is torn down in that dispatch with no body unit written and
\* without having entered DATA_SENT or ASYNC_ONGOING, and the process goes
\* on.
C16_FlushOrTeardown ==
    [][\A c \in Conns :
        (conn[c].state = STATE_SENDING_DATA /\ conn'[c] # conn[c])
            => LET flushed ==
                    HeaderUnits(sk'[c]) = HeaderUnits(sk[c]) + conn[c].send_len
               IN /\ ~dead'
                  /\ flushed <=> conn'[c].live
                  /\ flushed =>
                        /\ conn'[c].send_len = 0
                        /\ conn'[c].state \in {STATE_DATA_SENT, STATE_ASYNC_ONGOING}
                  /\ ~flushed =>
                        /\ hist'[c].removes = 1 /\ ~sk'[c].open
                        /\ sk'[c].body = sk[c].body
                        /\ STATE_DATA_SENT \notin hist'[c].reached
                        /\ STATE_ASYNC_ONGOING \notin hist'[c].reached]_vars

\* A connection torn down by a send that failed after a short write of the
\* header: one header unit on the wire, no body unit.
C16_Witness ==
    \E c \in Conns :
        /\ TornDown(c) /\ hist[c].faults = 1
        /\ STATE_SENDING_DATA \in hist[c].reached
        /\ sk[c].hdr200 = 1 /\ sk[c].body = 0
        /\ STATE_DATA_SENT \notin hist[c].reached

\* C17, as claimed: a connection serving a static file has entered
\* DATA_SENT only if all units of the file are on the wire; a sendfile that
\* fails after fewer units does not mark it DATA_SENT.
C17_StaticDataSentIsComplete ==
    \A c \in Conns :
        (/\ sk[c].req.ok /\ ClassOf(c) = RESOURCE_TYPE_STATIC
         /\ STATE_DATA_SENT \in hist[c].reached)
            => sk[c].body = FileSize(sk[c].file)

\* C18, as claimed, for the connections on which no system call failed or
\* fell short: from the first asynchronous chunk on, file_pos + file_size
\* is the size of the file, file_pos does not exceed that size, and
\* file_size has not wrapped below zero (it does not exceed that size
\* either).
C18_OffsetPlusSizeIsFileSize ==
    \A c \in Conns :
        (/\ conn[c].live /\ FaultFree(c)
         /\ STATE_ASYNC_ONGOING \in hist[c].reached)
            => /\ conn[c].file_pos + conn[c].file_size = FileSize(sk[c].file)
               /\ conn[c].file_pos <= FileSize(sk[c].file)
               /\ conn[c].file_size <= FileSize(sk[c].file)

\* C19, as claimed, for the connections that have entered REQUEST_RECEIVED
\* with a well-formed request delivered whole and on which no system call
\* failed or fell short.  The claim is that such a connection eventually
\* reaches DATA_SENT (or 404_SENT) and is then torn down, whatever the size
\* of the file.  Two things a finite run can show against it: the
\* connection torn down without having reached either state, and the
\* connection in ASYNC_ONGOING with a file_size that is not a multiple of
\* BUFSIZ.  From there DATA_SENT is out of reach: file_size changes only by
\* the subtraction of BUFSIZ modulo 2^SizeBits, so it never becomes 0, and
\* ASYNC_ONGOING leads to teardown through DATA_SENT only.
C19_EveryFileSizeFinishes ==
    \A c \in Conns :
        (/\ RequestDelivered(c) /\ FaultFree(c)
         /\ STATE_REQUEST_RECEIVED \in hist[c].reached)
            => /\ TornDown(c) =>
                    \/ STATE_DATA_SENT \in hist[c].reached
                    \/ STATE_404_SENT \in hist[c].reached
               /\ (conn[c].live /\ conn[c].state = STATE_ASYNC_ONGOING)
                    => conn[c].file_size % BUFSIZ = 0

\* The write of a chunk completed with an error or with fewer than BUFSIZ
\* units.
WriteFellShort(chunk) == chunk.nwritten < BUFSIZ

\* C20, as claimed: once the write of a chunk has failed or fallen short
\* the connection issues no further chunk, and the dispatch that reaped
\* that completion does not leave it in ASYNC_ONGOING.
C20_FailedCompletionIsFatal ==
    \A c \in Conns :
        LET L == hist[c].chunks
        IN /\ \A i \in 1..(Len(L) - 1) : ~WriteFellShort(L[i])
           /\ (L # <<>> /\ WriteFellShort(L[Len(L)]))
                => ~(conn[c].live /\ conn[c].state = STATE_ASYNC_ONGOING)

\* The states after which nothing is left to do but the teardown.
TerminalStates == {STATE_DATA_SENT, STATE_HEADER_SENT, STATE_404_SENT}

\* This step is a dispatch of handle_client on c: the peer's own steps
\* change the kernel's side of the socket only.
Dispatched(c) ==
    conn'[c] # conn[c] \/ ep'[c] # ep[c] \/ hist'[c] # hist[c]

\* C21, as claimed: a dispatch on a connection that the event loop holds in
\* DATA_SENT, HEADER_SENT or 404_SENT tears it down: socket closed, backing
\* file closed, record released.
C21_TerminalIsTornDownNext ==
    [][\A c \in Conns :
        (/\ conn[c].live /\ conn[c].state \in TerminalStates
         /\ Dispatched(c))
            => /\ ~conn'[c].live
               /\ hist'[c].removes = 1
               /\ ~sk'[c].open /\ ~sk'[c].fileOpen]_vars

\* C22, as claimed: from REQUEST_RECEIVED until teardown the socket of a
\* connection is not armed for input-readiness, whatever the resource
\* type.
C22_OutputOnlyAfterRequest ==
    \A c \in Conns :
        (conn[c].live /\ STATE_REQUEST_RECEIVED \in hist[c].reached)
            => ep[c] # "in"

\* C23, as claimed: whenever control is back in the event loop, a live
\* connection in INITIAL or RECEIVING is armed for input-readiness.
C23_ReadInterestWhileReceiving ==
    \A c \in Conns :
        (conn[c].live /\ conn[c].state \in {STATE_INITIAL, STATE_RECEIVING_DATA})
            => ep[c] = "in"

\* The position of a state along INITIAL -> RECEIVING -> REQUEST_RECEIVED ->
\* {SENDING_404 | SENDING_HEADER} -> {SENDING_DATA | ASYNC_ONGOING} ->
\* {DATA_SENT | HEADER_SENT | 404_SENT} -> CLOSED.
Rank(s) ==
    CASE s = STATE_INITIAL -> 0
      [] s = STATE_RECEIVING_DATA -> 1
      [] s = STATE_REQUEST_RECEIVED -> 2
      [] s \in {STATE_SENDING_404, STATE_SENDING_HEADER} -> 3
      [] s \in {STATE_SENDING_DATA, STATE_ASYNC_ONGOING} -> 4
      [] s \in TerminalStates -> 5
      [] s = STATE_CONNECTION_CLOSED -> 6

\* C24: in every step, the states a live connection passes through and the
\* state it ends in are not before its current state along the chain, and
\* they are states it has not been in before; staying in the current state
\* is the only exception.
C24_StatesOnlyForward ==
    [][\A c \in Conns :
        conn[c].live =>
            /\ Rank(conn'[c].state) >= Rank(conn[c].state)
            /\ \A s \in hist'[c].reached \ hist[c].reached :
                    Rank(s) >= Rank(conn[c].state)
            /\ conn'[c].state # conn[c].state
                    => conn'[c].state \notin hist[c].reached]_vars

\* A connection that has walked the chain to its end through two
\* asynchronous chunks.
C24_Witness ==
    \E c \in Conns :
        /\ {STATE_INITIAL, STATE_RECEIVING_DATA, STATE_REQUEST_RECEIVED,
            STATE_SENDING_HEADER, STATE_SENDING_DATA, STATE_ASYNC_ONGOING,
            STATE_DATA_SENT, STATE_CONNECTION_CLOSED} \subseteq hist[c].reached
        /\ Len(hist[c].chunks) >= 2
        /\ TornDown(c)

\* C25: res_type of a live record changes in one place only: the dispatch
\* that finds the connection in REQUEST_RECEIVED with a request the parser
\* accepts, which replaces the RESOURCE_TYPE_NONE of connection_create by
\* the class of the requested path and leaves REQUEST_RECEIVED; no other
\* step changes it.
C25_ResourceTypeSetOnce ==
    [][\A c \in Conns :
        (conn[c].live /\ conn'[c].live /\ conn'[c].res_type # conn[c].res_type)
            => /\ conn[c].state = STATE_REQUEST_RECEIVED
               /\ sk[c].req.ok
               /\ conn[c].res_type = RESOURCE_TYPE_NONE
               /\ conn'[c].res_type = ClassOf(c)
               /\ conn'[c].state # STATE_REQUEST_RECEIVED]_vars

\* A dynamic connection past its first asynchronous chunk, still dynamic.
C25_Witness ==
    \E c \in Conns :
        /\ conn[c].live /\ conn[c].state = STATE_ASYNC_ONGOING
        /\ Len(hist[c].chunks) >= 1
        /\ conn[c].res_type = RESOURCE_TYPE_DYNAMIC
        /\ ClassOf(c) = RESOURCE_TYPE_DYNAMIC

\* C26, as claimed, in its conclusion: a dispatch of ASYNC_ONGOING on c
\* takes from the shared context no completion of an operation that another
\* connection submitted.  (The dispatch takes the oldest completions of the
\* context; were every dispatch to reap its own pair before returning, as
\* claimed, the context would be empty when the dispatch starts.)
C26_ReapsOwnCompletions ==
    [][\A c \in Conns :
        (/\ conn[c].live /\ conn[c].state = STATE_ASYNC_ONGOING
         /\ Dispatched(c) /\ ~dead')
            => (aioq # <<>> => Head(aioq).c = c)]_vars

\* The folder name occurs in the path right after the leading "/".
StartsWithFolder(path, folder) ==
    Len(path.dirs) >= 2 /\ path.dirs[1] = "/" /\ path.dirs[2] = folder

\* C27: on every connection whose request has been parsed and classified,
\* res_type is static exactly if the static folder name follows the leading
\* "/" of the request path, dynamic exactly if the dynamic folder name
\* does, and none otherwise, a folder name further down the path
\* notwithstanding; and the path classified is still the path parsed.
C27_ClassifierIsPrefixTest ==
    \A c \in Conns :
        (/\ conn[c].live /\ conn[c].have_path = 1
         /\ Rank(conn[c].state) > Rank(STATE_REQUEST_RECEIVED))
            => LET p == conn[c].request_path
               IN /\ p = sk[c].req.path
                  /\ (conn[c].res_type = RESOURCE_TYPE_STATIC)
                        <=> StartsWithFolder(p, AWS_REL_STATIC_FOLDER)
                  /\ (conn[c].res_type = RESOURCE_TYPE_DYNAMIC)
                        <=> StartsWithFolder(p, AWS_REL_DYNAMIC_FOLDER)
                  /\ (conn[c].res_type = RESOURCE_TYPE_NONE)
                        <=> /\ ~StartsWithFolder(p, AWS_REL_STATIC_FOLDER)
                            /\ ~StartsWithFolder(p, AWS_REL_DYNAMIC_FOLDER)

\* A classified connection whose path names the static folder below
\* another directory: none.
C27_Witness ==
    \E c \in Conns :
        /\ conn[c].live /\ conn[c].state = STATE_SENDING_HEADER
        /\ conn[c].request_path.dirs = <<"/", "other/", AWS_REL_STATIC_FOLDER>>
        /\ conn[c].res_type = RESOURCE_TYPE_NONE

\* C28, as claimed: wherever the event loop is about to dispatch EPOLLIN on
\* a connection in RECEIVING, the call of receive_data that this dispatch
\* makes returns with recv_len equal to the units stored in recv_buffer so
\* far, the segment with the terminator included, and within the capacity
\* of the buffer.
C28_RecvLenIsStored ==
    \A c \in Conns :
        (/\ ~dead /\ conn[c].live /\ conn[c].state = STATE_RECEIVING_DATA
         /\ ep[c] = "in" /\ Readable(c))
            => LET r == receive_data(World(c))
               IN /\ r.conn.recv_len = r.h.stored
                  /\ r.conn.recv_len <= BUFSIZ

\* C29, as claimed: in every asynchronous chunk the write runs after the
\* read of that chunk, whatever order the kernel is free to take, and puts
\* on the socket no more units than the read returned.
C29_WriteSendsWhatWasRead ==
    \A c \in Conns :
        \A i \in 1..Len(hist[c].chunks) :
            LET chunk == hist[c].chunks[i]
            IN /\ chunk.order = "rw"
               /\ chunk.nwritten <= chunk.nread

\* C30: under every interleaving of main and the workers, every node has
\* been enqueued at most once and its info added to sum at most once; a
\* queued task's node is marked (PROCESSING, or DONE once a worker runs
\* it); the start node is never enqueued, and no thread examines a
\* neighbour before the node it processes is DONE.
C30_EachNodeOnce ==
    /\ \A n \in Nodes :
            /\ visits[n].enqueued <= 1
            /\ visits[n].added <= 1
            /\ visits[n].enqueued > 0 => graph.visited[n] # NOT_VISITED
    /\ visits[0].enqueued = 0
    /\ \A t \in Threads :
            thread[t].pc = "for" => graph.visited[thread[t].idx] = DONE

\* The traversal of a graph in which node 2 is a neighbour of both node 0
\* and node 1 has ended: every node enqueued by one of its two parents
\* only, every info added once.
C30_Witness ==
    /\ thread[MainThread].pc = "done"
    /\ 2 \in {graph.nodes[0].neighbours[i] : i \in 1..graph.nodes[0].num_neighbours}
    /\ 2 \in {graph.nodes[1].neighbours[i] : i \in 1..graph.nodes[1].num_neighbours}
    /\ \A n \in Nodes : visits[n].added = 1
    /\ visits[1].enqueued = 1 /\ visits[2].enqueued = 1
    /\ sum = (NumNodes * (NumNodes + 1)) \div 2

\* ================================================== the memory allocator

\* size_t arithmetic wraps at the end of the address space.
AddressSpace == SlotAddr(Cardinality(MapSlots) + 1)
SizeSub(a, b) == (a - b) % AddressSpace

\* ------------------------------------------------------------ mem_list.c

\* The blocks reached from b by following next, in order.
RECURSIVE ListFrom(_, _)
ListFrom(h, b) == IF b = NULL THEN <<>> ELSE <<b>> \o ListFrom(h, h.meta[b].next)
Range(s) == {s[i] : i \in 1..Len(s)}
BlockList(h) == Range(ListFrom(h, h.head))

set_block(h, block, size, status, prev, next) ==
    [h EXCEPT !.meta = (block :> [size |-> size, status |-> status,
                                  prev |-> prev, next |-> next]) @@ @]
set_size(h, block, size) == [h EXCEPT !.meta[block].size = size]
set_status(h, block, status) == [h EXCEPT !.meta[block].status = status]
get_size(h, block) == h.meta[block].size
get_status(h, block) == h.meta[block].status
back(h) == h.tail

\* The static flag is set the first time a block that is not mapped is seen.
find_preallocation(h) ==
    LET found == h.preallocation_done
                 \/ \E b \in BlockList(h) : h.meta[b].status # STATUS_MAPPED
    IN  [h |-> [h EXCEPT !.preallocation_done = found], found |-> found]

emplace_back(h, block, size, status) ==
    IF h.head = NULL
    THEN [set_block(h, block, size, status, NULL, NULL)
            EXCEPT !.head = block, !.tail = block]
    ELSE [set_block(h, block, size, status, h.tail, NULL)
            EXCEPT !.meta[h.tail].next = block, !.tail = block]

emplace_front(h, block, size, status) ==
    IF h.head = NULL
    THEN [set_block(h, block, size, status, NULL, NULL)
            EXCEPT !.head = block, !.tail = block]
    ELSE [set_block(h, block, size, status, NULL, h.head)
            EXCEPT !.meta[h.head].prev = block, !.head = block]

erase(h, block) ==
    IF block = NULL THEN h
    ELSE LET h1 == IF block = h.head
                   THEN [h EXCEPT !.head = h.meta[block].next]
                   ELSE [h EXCEPT !.meta[h.meta[block].prev].next = h.meta[block].next]
         IN  IF block = h1.tail
             THEN [h1 EXCEPT !.tail = h1.meta[block].prev]
             ELSE [h1 EXCEPT !.meta[h1.meta[block].next].prev = h1.meta[block].prev]

\* A split that would leave the block its whole size while a new block
\* starts inside it.
Mutant_split_keeps_size(h, block, size) ==
    IF SizeSub(h.meta[block].size, size) > ALIGNED_METADATA_SIZE
    THEN LET new_block == block + size
             h1 == set_block(h, new_block, SizeSub(h.meta[block].size, size),
                             STATUS_FREE, block, h.meta[block].next)
             h2 == IF h1.meta[block].next = NULL
                   THEN [h1 EXCEPT !.tail = new_block] ELSE h1
         IN  [h2 EXCEPT !.meta[block].next = new_block]
    ELSE h

\* The block keeps size bytes and a free block takes the rest, when the rest
\* holds more than a struct block_meta.
split_block(h, block, size) ==
    IF SizeSub(h.meta[block].size, size) > ALIGNED_METADATA_SIZE
    THEN LET new_block == block + size
             h1 == set_block(h, new_block, SizeSub(h.meta[block].size, size),
                             STATUS_FREE, block, h.meta[block].next)
             h2 == IF h1.meta[block].next = NULL
                   THEN [h1 EXCEPT !.tail = new_block] ELSE h1
         IN  [h2 EXCEPT !.meta[block].size = size, !.meta[block].next = new_block]
    ELSE h

\* The bytes of a block that was taken in by the one before it are payload
\* from then on: its struct block_meta is not there to be read any more.
absorbed(h, block) == [h EXCEPT !.meta = [b \in DOMAIN @ \ {block} |-> @[b]]]

find_block(h, block) == block # NULL /\ block \in BlockList(h)

coalesce_with_next(h, block) ==
    LET next == h.meta[block].next IN
    IF next = NULL \/ h.meta[next].status # STATUS_FREE
    THEN [h |-> h, merged |-> FALSE]
    ELSE LET h1 == absorbed([h EXCEPT !.meta[block].size = @ + h.meta[next].size,
                                      !.meta[block].next = h.meta[next].next], next)
         IN  [h |-> IF h1.meta[block].next = NULL
                    THEN [h1 EXCEPT !.tail = block] ELSE h1,
              merged |-> TRUE]

\* The loop of coalesce_free_blocks from curr_block on.
RECURSIVE coalesce_from(_, _)
coalesce_from(h, curr_block) ==
    IF curr_block = NULL THEN h
    ELSE LET next == h.meta[curr_block].next IN
         IF /\ h.meta[curr_block].status = STATUS_FREE
            /\ next # NULL
            /\ h.meta[next].status = STATUS_FREE
         THEN coalesce_from(absorbed([h EXCEPT
                                         !.meta[curr_block].size = @ + h.meta[next].size,
                                         !.meta[curr_block].next = h.meta[next].next],
                                      next),
                            curr_block)
         ELSE coalesce_from(IF next = NULL THEN [h EXCEPT !.tail = curr_block] ELSE h,
                            next)
coalesce_free_blocks(h) == coalesce_from(h, h.head)

\* The loop of find_best_fit from curr_block on, best_fit being the best so far.
RECURSIVE best_fit_from(_, _, _, _)
best_fit_from(h, curr_block, best_fit, size) ==
    IF curr_block = NULL THEN best_fit
    ELSE best_fit_from(h, h.meta[curr_block].next,
                       IF /\ h.meta[curr_block].status = STATUS_FREE
                          /\ h.meta[curr_block].size >= size
                          /\ (best_fit = NULL
                              \/ h.meta[curr_block].size < h.meta[best_fit].size)
                       THEN curr_block ELSE best_fit,
                       size)
find_best_fit(h, size) == best_fit_from(h, h.head, NULL, size)

\* --------------------------------------------------------------- osmem.c

\* The kernel: sbrk moves the break and returns the old one, and fails past
\* the limit; mmap takes a free slot, and fails when there is none; munmap
\* gives the slot back, with the metadata that was stored in it.
sbrk_fails(h, increment) == h.brk + increment > HeapLimit
sbrk(h, increment) == [h EXCEPT !.brk = @ + increment]
FreeSlots(h) == {s \in MapSlots : h.mapped[s] = 0}
mmap(h, s, length) == [h EXCEPT !.mapped[s] = length]
DIE(h) == [h EXCEPT !.exited = TRUE]
munmap(h, addr, length) ==
    IF \E s \in MapSlots : SlotAddr(s) = addr /\ h.mapped[s] = length
    THEN [h EXCEPT !.mapped = [s \in MapSlots |-> IF SlotAddr(s) = addr THEN 0 ELSE @[s]],
                   !.meta = [b \in DOMAIN @ \ {addr} |-> @[b]]]
    ELSE DIE(h)

\* What a call leaves behind and what it returns.
Returned(h, ret) == [h |-> h, ret |-> ret]

alloc(h, size, max_heap_allocation_size) ==
    LET aligned_size == ALIGNED_METADATA_SIZE + ALIGN(size) IN
    IF size = 0 THEN {Returned(h, NULL)}
    ELSE IF aligned_size >= max_heap_allocation_size
    THEN IF FreeSlots(h) = {} THEN {Returned(DIE(h), NULL)}
         ELSE {Returned(emplace_front(mmap(h, s, aligned_size), SlotAddr(s),
                                      aligned_size, STATUS_MAPPED),
                        SlotAddr(s) + ALIGNED_METADATA_SIZE) : s \in FreeSlots(h)}
    ELSE IF ~find_preallocation(h).found
    THEN IF sbrk_fails(h, MMAP_THRESHOLD) THEN {Returned(DIE(h), NULL)}
         ELSE LET block == h.brk
                  h1 == emplace_back(sbrk(h, MMAP_THRESHOLD), block,
                                     MMAP_THRESHOLD, STATUS_FREE)
                  h2 == split_block(h1, block, aligned_size)
              IN  {Returned(set_status(h2, block, STATUS_ALLOC),
                            block + ALIGNED_METADATA_SIZE)}
    ELSE LET h0 == coalesce_free_blocks(find_preallocation(h).h)
             best_fit == find_best_fit(h0, aligned_size)
         IN  IF best_fit # NULL
             THEN {Returned(set_status(split_block(h0, best_fit, aligned_size),
                                       best_fit, STATUS_ALLOC),
                            best_fit + ALIGNED_METADATA_SIZE)}
             ELSE IF get_status(h0, back(h0)) = STATUS_FREE
             THEN LET block == back(h0)
                      increment == SizeSub(aligned_size, get_size(h0, block))
                  IN  IF sbrk_fails(h0, increment) THEN {Returned(DIE(h0), NULL)}
                      ELSE {Returned(set_status(set_size(sbrk(h0, increment), block,
                                                         aligned_size),
                                                block, STATUS_ALLOC),
                                     block + ALIGNED_METADATA_SIZE)}
             ELSE IF sbrk_fails(h0, aligned_size) THEN {Returned(DIE(h0), NULL)}
                  ELSE {Returned(emplace_back(sbrk(h0, aligned_size), h0.brk,
                                              aligned_size, STATUS_ALLOC),
                                 h0.brk + ALIGNED_METADATA_SIZE)}

os_malloc(h, size) == alloc(h, size, MMAP_THRESHOLD)

os_free(h, ptr) ==
    LET block == ptr - ALIGNED_METADATA_SIZE IN
    IF ptr = NULL \/ ~find_block(h, block) \/ get_status(h, block) = STATUS_FREE
    THEN h
    ELSE IF get_status(h, block) = STATUS_MAPPED
    THEN munmap(erase(h, block), block, get_size(erase(h, block), block))
    ELSE set_status(h, block, STATUS_FREE)

os_calloc(h, nmemb, size) == alloc(h, nmemb * size, PageSize)

\* The loop of os_realloc that takes in the free blocks after block.
RECURSIVE realloc_coalesce(_, _, _, _)
realloc_coalesce(h, block, aligned_size, expanded) ==
    IF get_size(h, block) < aligned_size /\ coalesce_with_next(h, block).merged
    THEN realloc_coalesce(coalesce_with_next(h, block).h, block, aligned_size, TRUE)
    ELSE [h |-> h, expanded |-> expanded]

\* The two places of os_realloc that move the data to a new block; the
\* first one frees the old block without looking at new_ptr.
realloc_move(h, ptr, size, checked) ==
    {Returned(IF r.h.exited \/ (checked /\ r.ret = NULL) THEN r.h ELSE os_free(r.h, ptr),
              r.ret) : r \in os_malloc(h, size)}

os_realloc(h, ptr, size) ==
    LET block == ptr - ALIGNED_METADATA_SIZE
        aligned_size == ALIGNED_METADATA_SIZE + ALIGN(size)
    IN
    IF size = 0 THEN {Returned(os_free(h, ptr), NULL)}
    ELSE IF ptr = NULL THEN os_malloc(h, size)
    ELSE IF ~find_block(h, block) \/ get_status(h, block) = STATUS_FREE
    THEN {Returned(h, NULL)}
    ELSE IF get_status(h, block) = STATUS_MAPPED \/ aligned_size >= MMAP_THRESHOLD
    THEN realloc_move(h, ptr, size, FALSE)
    ELSE LET c == realloc_coalesce(h, block, aligned_size, FALSE) IN
         IF get_size(c.h, block) >= aligned_size
         THEN {Returned(set_status(split_block(c.h, block, aligned_size),
                                   block, STATUS_ALLOC), ptr)}
         ELSE IF block = back(c.h) /\ ~c.expanded
         THEN LET increment == SizeSub(aligned_size, get_size(c.h, block)) IN
              IF sbrk_fails(c.h, increment) THEN {Returned(DIE(c.h), NULL)}
              ELSE {Returned(set_status(set_size(sbrk(c.h, increment), block,
                                                 aligned_size),
                                        block, STATUS_ALLOC), ptr)}
         ELSE realloc_move(c.h, ptr, size, TRUE)

\* ------------------------------------------------------------ the caller

\* The caller holds the pointers it was given and has not given back. It may
\* pass any pointer where a block is or was (a pointer it gave back, say);
\* find_block turns every other pointer away at once.
Passable(h, ptr) == ptr = NULL \/ ptr - ALIGNED_METADATA_SIZE \in DOMAIN h.meta

Hold(l, p) ==
    IF p = NULL THEN l
    ELSE IF p \in DOMAIN l THEN [l EXCEPT ![p] = @ + 1]
    ELSE (p :> 1) @@ l
Drop(l, p) == [q \in DOMAIN l \ {p} |-> l[q]]

\* What a call did, read off the memory before and after it: a new heap
\* block that does not start at the old break is new by a split, a heap block
\* that is gone was taken in by the one before it, a free block that is
\* allocated with the break where it was has been reused, and a break that
\* moved with no block at the old break made the last block longer.
InHeap(h, b) == HeapStart <= b /\ b < h.brk
Did(h, h2) ==
    {m \in {"split"} :
        \E b \in DOMAIN h2.meta \ DOMAIN h.meta : InHeap(h2, b) /\ b # h.brk}
    \cup {m \in {"coalesce"} : \E b \in DOMAIN h.meta \ DOMAIN h2.meta : InHeap(h, b)}
    \cup {m \in {"reuse"} :
            \E b \in DOMAIN h.meta \cap DOMAIN h2.meta :
                /\ InHeap(h, b)
                /\ h2.brk = h.brk
                /\ h.meta[b].status = STATUS_FREE
                /\ h2.meta[b].status = STATUS_ALLOC}
    \cup {m \in {"expand"} :
            /\ h.brk > HeapStart
            /\ h2.brk > h.brk
            /\ h.brk \notin DOMAIN h2.meta}

Malloc(size) ==
    /\ ~heap.exited
    /\ \E r \in os_malloc(heap, size) :
          /\ heap' = r.h
          /\ live' = Hold(live, r.ret)
          /\ used' = used \cup Did(heap, r.h)
    /\ UNCHANGED <<avars, gvars, svars>>

Calloc(nmemb, size) ==
    /\ ~heap.exited
    /\ nmemb * size \in Sizes
    /\ \E r \in os_calloc(heap, nmemb, size) :
          /\ heap' = r.h
          /\ live' = Hold(live, r.ret)
          /\ used' = used \cup Did(heap, r.h)
    /\ UNCHANGED <<avars, gvars, svars>>

\* realloc keeps the old pointer valid when it returns it or fails.
Realloc(ptr, size) ==
    /\ ~heap.exited
    /\ Passable(heap, ptr)
    /\ \E r \in os_realloc(heap, ptr, size) :
          /\ heap' = r.h
          /\ live' = IF size = 0 THEN Drop(live, ptr)
                     ELSE IF r.ret = NULL \/ r.ret = ptr THEN live
                     ELSE Hold(Drop(live, ptr), r.ret)
          /\ used' = used \cup Did(heap, r.h)
    /\ UNCHANGED <<avars, gvars, svars>>

Free(ptr) ==
    /\ ~heap.exited
    /\ Passable(heap, ptr)
    /\ heap' = os_free(heap, ptr)
    /\ live' = Drop(live, ptr)
    /\ used' = used
    /\ UNCHANGED <<avars, gvars, svars>>

\* A process that only uses the allocator; no web server, traversal or
\* shell runs beside it.
InitHeap ==
    /\ conn = [c \in Conns |-> NoConnection]
    /\ sk = [c \in Conns |-> NoSocket]
    /\ ep = [c \in Conns |-> "none"]
    /\ aioq = <<>>
    /\ dead = FALSE
    /\ hist = [c \in Conns |-> NoHistory]
    /\ backlog = [pending |-> {}, reqs |-> {}]
    /\ NoTraversal
    /\ NoAllocator
    /\ NoShell

NextHeap ==
    \/ \E size \in Sizes : Malloc(size)
    \/ \E nmemb \in Counts, size \in Sizes : Calloc(nmemb, size)
    \/ \E ptr \in Pointers, size \in Sizes : Realloc(ptr, size)
    \/ \E ptr \in Pointers : Free(ptr)

SpecHeap == InitHeap /\ [][NextHeap]_vars

\* ------------------------------------------------------------- claim C31

\* The bytes of a block's struct block_meta and the bytes after it.
Metadata(h, b) == b..(b + ALIGNED_METADATA_SIZE - 1)
Payload(h, b) == (b + ALIGNED_METADATA_SIZE)..(b + h.meta[b].size - 1)
HandedOut(h) ==
    {b \in BlockList(h) : h.meta[b].status \in {STATUS_ALLOC, STATUS_MAPPED}}

\* Memory the process owns: the heap below the break and the live mappings.
Backed(h) ==
    HeapStart..(h.brk - 1)
    \cup UNION {SlotAddr(s)..(SlotAddr(s) + h.mapped[s] - 1) : s \in MapSlots}

\* C31: after any sequence of os_malloc, os_calloc, os_realloc and os_free
\* calls, the payloads of the blocks handed out (ALLOC or MAPPED) are
\* pairwise disjoint and disjoint from every block's metadata; every pointer
\* the caller holds was given out once, is the payload of one such block, and
\* lies in memory the process owns.
C31_PayloadsDisjoint ==
    /\ \A a, b \in HandedOut(heap) :
          a # b => Payload(heap, a) \cap Payload(heap, b) = {}
    /\ \A a \in HandedOut(heap), b \in BlockList(heap) :
          Payload(heap, a) \cap Metadata(heap, b) = {}
    /\ \A p \in DOMAIN live :
          /\ live[p] = 1
          /\ p - ALIGNED_METADATA_SIZE \in HandedOut(heap)
          /\ Payload(heap, p - ALIGNED_METADATA_SIZE) \subseteq Backed(heap)

\* Reached: the allocator has split, coalesced, reused a free block and made
\* the last block longer, and the caller holds two heap payloads and a mapping.
C31_Witness ==
    /\ used = {"split", "coalesce", "reuse", "expand"}
    /\ Cardinality({p \in DOMAIN live : InHeap(heap, p)}) >= 2
    /\ \E p \in DOMAIN live : ~InHeap(heap, p)
    /\ \E b \in BlockList(heap) : heap.meta[b].status = STATUS_FREE

\* ==================================================== the shell's commands

\* A simple command stands for the exit status its process ends with; a
\* compound command joins two commands that are simple or compound of simple
\* ones; a line may also hold no command at all.
MaxStatus == 2
Statuses == 0..MaxStatus
CompoundOps ==
    {OP_SEQUENTIAL, OP_PARALLEL, OP_CONDITIONAL_NZERO, OP_CONDITIONAL_ZERO, OP_PIPE}
SimpleCommands == [op : {OP_NONE}, scmd : Statuses]
Compound(parts) == [op : CompoundOps, cmd1 : parts, cmd2 : parts]
Commands ==
    {NoCommand} \cup SimpleCommands
                \cup Compound(SimpleCommands \cup Compound(SimpleCommands))

\* The status a parent reads with WEXITSTATUS from a child that called
\* exit(status), and an int returned through a function declared bool.
WEXITSTATUS(status) == status % 256
AsBool(value) == IF value = 0 THEN 0 ELSE 1

\* An external command: the child's exit status.
parse_simple(scmd) == WEXITSTATUS(scmd)

\* Both children ran parse_command and called exit(EXIT_SUCCESS).
run_in_parallel(status1, status2) == AsBool(WEXITSTATUS(EXIT_SUCCESS))

\* Each child called exit(parse_command(...)); the second one's status counts.
run_on_pipe(status1, status2) == AsBool(WEXITSTATUS(status2))

\* What a call of parse_command returns, and the calls that returned while it
\* ran, itself last; path tells the command's place below the line's command.
Finished(path, status, log) ==
    [status |-> status, log |-> Append(log, [path |-> path, status |-> status])]

RECURSIVE parse_command(_, _)
parse_command(c, path) ==
    IF c.op = NoCommand.op THEN Finished(path, EXIT_FAILURE, <<>>)
    ELSE IF c.op = OP_NONE THEN Finished(path, parse_simple(c.scmd), <<>>)
    ELSE LET r1 == parse_command(c.cmd1, Append(path, 1))
             r2 == parse_command(c.cmd2, Append(path, 2))
         IN  CASE c.op = OP_SEQUENTIAL ->
                    Finished(path, IF r1.status = 0 /\ r2.status = 0 THEN 0 ELSE -1,
                             r1.log \o r2.log)
               [] c.op = OP_PARALLEL ->
                    Finished(path, run_in_parallel(r1.status, r2.status),
                             r1.log \o r2.log)
               [] c.op = OP_CONDITIONAL_NZERO ->
                    IF r1.status # 0
                    THEN Finished(path, r2.status, r1.log \o r2.log)
                    ELSE Finished(path, 0, r1.log)
               [] c.op = OP_CONDITIONAL_ZERO ->
                    IF r1.status = 0
                    THEN Finished(path, r2.status, r1.log \o r2.log)
                    ELSE Finished(path, 0, r1.log)
               [] c.op = OP_PIPE ->
                    Finished(path, run_on_pipe(r1.status, r2.status),
                             r1.log \o r2.log)

\* The shell runs the command of the line it has read.
Execute ==
    /\ shell.pc = "read"
    /\ LET r == parse_command(shell.c, <<>>)
       IN  shell' = [shell EXCEPT !.pc = "done", !.status = r.status, !.log = r.log]
    /\ UNCHANGED <<avars, gvars, mvars>>

\* A shell that has read one line; no web server, traversal or allocator
\* runs beside it.
InitShell ==
    /\ conn = [c \in Conns |-> NoConnection]
    /\ sk = [c \in Conns |-> NoSocket]
    /\ ep = [c \in Conns |-> "none"]
    /\ aioq = <<>>
    /\ dead = FALSE
    /\ hist = [c \in Conns |-> NoHistory]
    /\ backlog = [pending |-> {}, reqs |-> {}]
    /\ NoTraversal
    /\ NoAllocator
    /\ shell \in {[IdleShell EXCEPT !.pc = "read", !.c = c] : c \in Commands}

NextShell == Execute

SpecShell == InitShell /\ [][NextShell]_vars

\* ------------------------------------------------------------- claim C32

\* The command at path below c.
RECURSIVE CommandAt(_, _)
CommandAt(c, path) ==
    IF path = <<>> THEN c
    ELSE CommandAt(IF Head(path) = 1 THEN c.cmd1 ELSE c.cmd2, Tail(path))

\* The calls that returned for the command at path, and their statuses.
CallsAt(path) == {i \in 1..Len(shell.log) : shell.log[i].path = path}
StatusesAt(path) == {shell.log[i].status : i \in CallsAt(path)}

\* C32: for cmd1 && cmd2, cmd2 is executed only if cmd1 returned zero, and
\* the node's status is zero only if cmd1 and cmd2 both returned zero; for
\* cmd1 || cmd2, cmd2 is executed only if cmd1 returned non-zero.
C32_ConditionalStatus ==
    shell.pc = "done" =>
        \A i \in 1..Len(shell.log) :
            LET node == shell.log[i]
                op == CommandAt(shell.c, node.path).op
                status1 == StatusesAt(Append(node.path, 1))
                status2 == StatusesAt(Append(node.path, 2))
            IN  /\ op = OP_CONDITIONAL_ZERO =>
                      /\ status2 # {} => status1 = {0}
                      /\ node.status = 0 => status1 = {0} /\ status2 = {0}
                /\ op = OP_CONDITIONAL_NZERO =>
                      (status2 # {} => 0 \notin status1)

====
